---- MODULE Spec2Model ----
(***************************************************************************)
(* Secure Data Vault (app.py): one Streamlit session over a key file and a *)
(* data file.  Every user interaction is one script run (plus the run a    *)
(* st.rerun() triggers): the run reloads the key and the data file, then   *)
(* dispatches on st.session_state.current_page to a page function whose    *)
(* widget handler processes the interaction.                               *)
(*                                                                         *)
(* Representation.  Python None is the string None; a dict is a function   *)
(* whose DOMAIN is its key set (login_attempts, stored_data), and a user's *)
(* item dict, whose insertion order matters, is the sequence of its        *)
(* <<data_id, item>> entries.  A Fernet token is the pair of the key that  *)
(* made it and the text it holds; a SHA-256 digest is the tagged preimage  *)
(* (collision free).  The key file and the data file are written only by   *)
(* the program, except that the key file may be removed from outside.      *)
(***************************************************************************)
EXTENDS Integers, Sequences, FiniteSets, TLC

MAX_ATTEMPTS == 3

\* Bounds of the model: items the vault may hold in total, keys ever generated.
MaxItems == 2
MaxKeys == 2
MaxGuesses == 4     \* wrong guesses counted since a login; the count stays there

None == "None"

\* The key file does not exist (keys are numbered from 1).
NoKeyFile == 0

\* What the forms may submit; "" is the empty (falsy) input.
Usernames == {"", "alice", "bob"}
Passkeys == {"", "abc123", "xyz789"}
Texts == {"", "hello", "world"}

VARIABLES
    key_file,        \* content of secret.key: a key, or NoKeyFile when the file is absent
    keys_generated,  \* how many keys Fernet.generate_key() has produced so far
    data_file,       \* data.json: whether it exists, and the dict its content parses to
    stored_data,     \* the module-level dict stored_data at the end of the last run
    logged_in_user,  \* st.session_state.logged_in_user
    login_attempts,  \* st.session_state.login_attempts
    current_page,    \* st.session_state.current_page
    event,           \* the widget event the last script run processed
    shown,           \* what the last script run left on screen: messages and decrypted text
    wrong_guesses,   \* history: non-matching passkeys submitted since the last login
    runs             \* two script runs of render_store in two sessions, step by step

vars == <<key_file, keys_generated, data_file, stored_data, logged_in_user,
          login_attempts, current_page, event, shown, wrong_guesses, runs>>

----------------------------------------------------------------------------
\* Cryptography and hashing helpers

\* Fernet.generate_key(): fresh random key material, written to the key file.
generate_key(generated) == generated + 1

\* Mutant of load_key: the key is generated anew whether or not the file exists.
load_key_regenerating(kf, generated) ==
    [KEY |-> generate_key(generated), key_file |-> generate_key(generated),
     keys_generated |-> generated + 1]

\* load_key(): the key in the key file when it exists, else a newly generated one.
load_key(kf, generated) ==
    IF kf # NoKeyFile
    THEN [KEY |-> kf, key_file |-> kf, keys_generated |-> generated]
    ELSE [KEY |-> generate_key(generated), key_file |-> generate_key(generated),
          keys_generated |-> generated + 1]

hash_passkey(passkey) == <<"sha256", passkey>>

\* Mutant of encrypt_data: the cipher is built from a newly generated key, not KEY.
encrypt_data_other_key(text, KEY) == [key |-> KEY + 1, text |-> text]

\* cipher_suite.encrypt: a token only the key that made it opens.
encrypt_data(text, KEY) == [key |-> KEY, text |-> text]

\* Mutant of decrypt_data: the token is opened without the key being verified.
decrypt_data_unverified(encrypted_text, KEY) == encrypted_text.text

\* Fernet.decrypt raises InvalidToken under another key; the except returns None.
decrypt_data(encrypted_text, KEY) ==
    IF encrypted_text.key = KEY THEN encrypted_text.text ELSE None

----------------------------------------------------------------------------
\* Data persistence helpers

EmptyDict == [u \in {} |-> <<>>]

\* data.json on disk
File(exists, content) == [exists |-> exists, content |-> content]

\* load_data(): the parsed content of the data file, {} when there is no file.
load_data(file) == IF file.exists THEN file.content ELSE EmptyDict

\* Mutant of save_data: the items are added to what the file holds, not written
\* in its place.
save_data_merging(data, file, write_ok) ==
    LET old == load_data(file)
        Get(d, u) == IF u \in DOMAIN d THEN d[u] ELSE <<>>
        Kept(u) == Get(old, u)
        New(u) == LET Absent(x) == \A i \in 1..Len(Kept(u)) : Kept(u)[i] # x
                  IN  SelectSeq(Get(data, u), Absent)
    IN  IF write_ok
        THEN File(TRUE, [u \in DOMAIN old \cup DOMAIN data |-> Kept(u) \o New(u)])
        ELSE file

\* save_data(data): json.dump to the data file; an IOError on open is caught and
\* reported, leaving the file as it was.
save_data(data, file, write_ok) == IF write_ok THEN File(TRUE, data) ELSE file

\* d[k] = v on a dict d
DictSet(d, k, v) == [x \in DOMAIN d \cup {k} |-> IF x = k THEN v ELSE d[x]]

\* items[data_id] = item on an insertion-ordered dict: an existing key keeps its
\* place and gets the new value, a new key goes last.
ItemSet(items, id, item) ==
    IF \E i \in 1..Len(items) : items[i][1] = id
    THEN [i \in 1..Len(items) |-> IF items[i][1] = id THEN <<id, item>> ELSE items[i]]
    ELSE Append(items, <<id, item>>)

\* stored_data.get(user, {})
ItemsOf(sd, user) == IF user \in DOMAIN sd THEN sd[user] ELSE <<>>

RECURSIVE SumLen(_, _)
SumLen(sd, S) ==
    IF S = {} THEN 0
    ELSE LET u == CHOOSE x \in S : TRUE IN Len(sd[u]) + SumLen(sd, S \ {u})

TotalItems(sd) == SumLen(sd, DOMAIN sd)

----------------------------------------------------------------------------
\* Session state helpers

NewAttemptState == [attempts |-> 0, locked |-> FALSE]

TypeOK ==
    /\ key_file \in {NoKeyFile} \cup (1..MaxKeys)
    /\ keys_generated \in 1..MaxKeys
    /\ logged_in_user \in {None} \cup (Usernames \ {""})
    /\ DOMAIN login_attempts \subseteq Usernames \ {""}
    /\ \A u \in DOMAIN login_attempts :
          /\ login_attempts[u].attempts \in 0..MAX_ATTEMPTS
          /\ login_attempts[u].locked \in BOOLEAN
    /\ current_page \in {"Login", "Home", "Store", "Retrieve"}
    /\ DOMAIN stored_data \subseteq Usernames \ {""}
    /\ data_file.exists \in BOOLEAN
    /\ DOMAIN data_file.content \subseteq Usernames \ {""}
    /\ shown.text \in {None} \cup Texts
    /\ wrong_guesses \in 0..MaxGuesses
    /\ \A s \in DOMAIN runs :
          runs[s].pc \in {"idle", "loaded", "appended", "reported"}

\* Mutant of navigate_to: the attempts count is never reset.
navigate_to_no_reset(page_name, user, la) ==
    [login_attempts |-> la, current_page |-> page_name]

\* Mutant of navigate_to: the reset replaces the whole entry, lock included.
navigate_to_unlocking(page_name, user, la) ==
    [login_attempts |->
        IF page_name # "Retrieve" /\ user # None /\ user # "" /\ user \in DOMAIN la
        THEN [la EXCEPT ![user] = NewAttemptState]
        ELSE la,
     current_page |-> page_name]

\* navigate_to(page_name): resets the logged-in user's attempts count (only the
\* count) unless the target is the Retrieve page, then sets the page; the
\* st.rerun() that follows renders the new page.
navigate_to(page_name, user, la) ==
    [login_attempts |->
        IF page_name # "Retrieve" /\ user # None /\ user # "" /\ user \in DOMAIN la
        THEN [la EXCEPT ![user].attempts = 0]
        ELSE la,
     current_page |-> page_name]

\* render_home: st.session_state.login_attempts.get(user, {}).get('locked', False)
is_locked(la, user) == user \in DOMAIN la /\ la[user].locked

\* render_retrieve: st.session_state.login_attempts.get(user, {'attempts': 0, 'locked': False})
user_attempts_state(la, user) == IF user \in DOMAIN la THEN la[user] ELSE NewAttemptState

\* render_retrieve: "user not in stored_data or not stored_data[user]"
has_no_data(sd, user) == user \notin DOMAIN sd \/ Len(sd[user]) = 0

\* Mutant of first_match: the loop does not break, the last match wins.
first_match_last(items, hashed_input_pk) ==
    IF \E i \in 1..Len(items) : items[i][2].passkey_hash = hashed_input_pk
    THEN CHOOSE i \in 1..Len(items) :
            /\ items[i][2].passkey_hash = hashed_input_pk
            /\ \A j \in (i + 1)..Len(items) : items[j][2].passkey_hash # hashed_input_pk
    ELSE 0

\* The for loop of render_retrieve: the index of the first item, in insertion
\* order, whose passkey_hash equals the hashed input; 0 when there is none.
first_match(items, hashed_input_pk) ==
    IF \E i \in 1..Len(items) : items[i][2].passkey_hash = hashed_input_pk
    THEN CHOOSE i \in 1..Len(items) :
            /\ items[i][2].passkey_hash = hashed_input_pk
            /\ \A j \in 1..(i - 1) : items[j][2].passkey_hash # hashed_input_pk
    ELSE 0

\* Mutant of new_data_id: the + 1 is missing.
new_data_id_unshifted(items) == <<"data_", Len(items)>>

\* render_store: data_id = f"data_{len(stored_data.get(user, {})) + 1}"
new_data_id(items) == <<"data_", Len(items) + 1>>

Screen(msgs, text) == [msgs |-> msgs, text |-> text]

\* The messages of the pages (st.error, st.warning, st.info, st.success).
MsgEnterUsername == "Please Enter A Username."
MsgAccountLocked == "Account Locked Due To Failed Attempts. Logout & Login Again."
MsgSaveFailed == "Failed to save data."
MsgStored == "Data Encrypted And Stored Successfully!"
MsgProvideBoth == "Please Provide Both Data And A Passkey."
MsgNoData == "You Haven't Stored Any Data Yet."
MsgMaxRetrieval == "Maximum Retrieval Attempts Reached. Please Logout & Login Again To Retry."
MsgDecrypted == "Decrypted Data:"
MsgDecryptFailed == "Decryption Failed. Data Might Be Corrupted Or Key Changed."
MsgIncorrect == "Incorrect Passkey."
MsgEnterPasskey == "Please Enter A Passkey."

\* What a script run with no widget event leaves on screen (the page dispatch
\* at the end of the script and the page functions' unconditional parts).
render_page(page, user, la, sd) ==
    IF page = "Login" \/ user = None THEN Screen({}, None)
    ELSE IF page = "Home"
         THEN IF is_locked(la, user)
              THEN Screen({MsgAccountLocked}, None)
              ELSE Screen({}, None)
    ELSE IF page = "Store" THEN Screen({}, None)
    ELSE IF has_no_data(sd, user) THEN Screen({MsgNoData}, None)
    ELSE IF user_attempts_state(la, user).locked
         THEN Screen({MsgMaxRetrieval}, None)
    ELSE Screen({}, None)

----------------------------------------------------------------------------
\* The handlers of the forms, as functions of the state the run reads

\* Mutant of login_submit: a known user's lock is not cleared, only the count.
login_submit_keeps_lock(username, user, la) ==
    IF username # ""
    THEN [logged_in_user |-> username,
          login_attempts |->
              IF username \notin DOMAIN la
              THEN DictSet(la, username, NewAttemptState)
              ELSE [la EXCEPT ![username].attempts = 0],
          navigate |-> TRUE]
    ELSE [logged_in_user |-> user, login_attempts |-> la, navigate |-> FALSE]

\* Mutant of login_submit: a new username is logged in without an entry being made.
login_submit_without_entry(username, user, la) ==
    IF username # ""
    THEN [logged_in_user |-> username,
          login_attempts |->
              IF username \notin DOMAIN la
              THEN la
              ELSE [la EXCEPT ![username] = [attempts |-> 0, locked |-> FALSE]],
          navigate |-> TRUE]
    ELSE [logged_in_user |-> user, login_attempts |-> la, navigate |-> FALSE]

\* render_login, "if submitted_login": the session state a login leaves, before
\* its navigate_to("Home").
login_submit(username, user, la) ==
    IF username # ""
    THEN [logged_in_user |-> username,
          login_attempts |->
              IF username \notin DOMAIN la
              THEN DictSet(la, username, NewAttemptState)
              ELSE [la EXCEPT ![username] = [attempts |-> 0, locked |-> FALSE]],
          navigate |-> TRUE]
    ELSE [logged_in_user |-> user, login_attempts |-> la, navigate |-> FALSE]

\* Mutant of logout: the departing user's entry is left as it is.
logout_keeping_state(user, la) == [logged_in_user |-> None, login_attempts |-> la]

\* render_home, the Logout button: the session state before navigate_to("Login").
logout(user, la) ==
    [logged_in_user |-> None,
     login_attempts |-> IF user \in DOMAIN la
                        THEN [la EXCEPT ![user] = NewAttemptState]
                        ELSE la]

\* Mutant of store_submit: the item is added to every user's collection.
store_submit_for_all(user, sd, KEY, data_to_store, passkey_store) ==
    IF data_to_store # "" /\ passkey_store # ""
    THEN LET item == [encrypted_text |-> encrypt_data(data_to_store, KEY),
                      passkey_hash |-> hash_passkey(passkey_store)]
         IN  [x \in DOMAIN sd \cup {user} |->
                 ItemSet(ItemsOf(sd, x), new_data_id(ItemsOf(sd, x)), item)]
    ELSE sd

\* render_store, "if submitted_store": the in-memory stored_data after the handler.
store_submit(user, sd, KEY, data_to_store, passkey_store) ==
    IF data_to_store # "" /\ passkey_store # ""
    THEN LET items == ItemsOf(sd, user)
             item == [encrypted_text |-> encrypt_data(data_to_store, KEY),
                      passkey_hash |-> hash_passkey(passkey_store)]
         IN  DictSet(sd, user, ItemSet(items, new_data_id(items), item))
    ELSE sd

\* Mutant of failed_attempt: the lock is set one failure early.
failed_attempt_early(state) ==
    LET attempts == state.attempts + 1
    IN  [attempts |-> attempts,
         locked |-> IF attempts >= MAX_ATTEMPTS - 1 THEN TRUE ELSE state.locked]

\* Mutant of failed_attempt: the threshold test written > instead of >=.
failed_attempt_late(state) ==
    LET attempts == state.attempts + 1
    IN  [attempts |-> attempts,
         locked |-> IF attempts > MAX_ATTEMPTS THEN TRUE ELSE state.locked]

\* Mutant of failed_attempt: one failure is counted twice.
failed_attempt_twice(state) ==
    LET attempts == state.attempts + 2
    IN  [attempts |-> attempts,
         locked |-> IF attempts >= MAX_ATTEMPTS THEN TRUE ELSE state.locked]

\* render_retrieve, "if not found_data": the attempt state after a failure.
failed_attempt(state) ==
    LET attempts == state.attempts + 1
    IN  [attempts |-> attempts,
         locked |-> IF attempts >= MAX_ATTEMPTS THEN TRUE ELSE state.locked]

\* render_retrieve, write-back: st.session_state.login_attempts[user] = user_attempts_state
Outcome(la, screen, rerun) == [login_attempts |-> la, screen |-> screen, rerun |-> rerun]

\* Mutant of on_match: a successful decryption does not reset the count.
on_match_no_reset(user, la, state, decrypted_text) ==
    IF decrypted_text # None
    THEN Outcome(DictSet(la, user, state), Screen({MsgDecrypted}, decrypted_text), FALSE)
    ELSE Outcome(DictSet(la, user, state), Screen({MsgDecryptFailed}, None), FALSE)

\* Mutant of on_match: found_data is not set when the decryption fails, so the
\* attempt is counted as a failure.
on_match_counting_failure(user, la, state, decrypted_text) ==
    IF decrypted_text # None
    THEN Outcome(DictSet(la, user, [state EXCEPT !.attempts = 0]),
                 Screen({MsgDecrypted}, decrypted_text), FALSE)
    ELSE LET after == [attempts |-> state.attempts + 1,
                       locked |-> state.attempts + 1 >= MAX_ATTEMPTS]
         IN  Outcome(DictSet(la, user, after), Screen({MsgDecryptFailed}, None), FALSE)

\* Mutant of on_match: a failed decryption resets the count as a success does.
on_match_resetting_on_failure(user, la, state, decrypted_text) ==
    IF decrypted_text # None
    THEN Outcome(DictSet(la, user, [state EXCEPT !.attempts = 0]),
                 Screen({MsgDecrypted}, decrypted_text), FALSE)
    ELSE Outcome(DictSet(la, user, [state EXCEPT !.attempts = 0]),
                 Screen({MsgDecryptFailed}, None), FALSE)

\* render_retrieve, the body of the for loop at the first item whose hash
\* matches: found_data is set whether or not the item decrypts, and only a
\* successful decryption touches the attempts count.
on_match(user, la, state, decrypted_text) ==
    IF decrypted_text # None
    THEN Outcome(DictSet(la, user, [state EXCEPT !.attempts = 0]),
                 Screen({MsgDecrypted}, decrypted_text), FALSE)
    ELSE Outcome(DictSet(la, user, state), Screen({MsgDecryptFailed}, None), FALSE)

\* render_retrieve, "if not found_data".  user_attempts_state is the dict held
\* in login_attempts when the user has an entry, so a change to it is a change to
\* the session state at once; otherwise it is the fresh default, which only the
\* write-back of the handler's last line stores.  The st.rerun() of the lockout
\* ends the run before that write-back.
on_no_match(user, la, state) ==
    LET after == failed_attempt(state)
    IN  IF after.attempts >= MAX_ATTEMPTS
        THEN Outcome(IF user \in DOMAIN la THEN DictSet(la, user, after) ELSE la,
                     Screen({MsgIncorrect}, None), TRUE)
        ELSE Outcome(DictSet(la, user, after), Screen({MsgIncorrect}, None), FALSE)

\* render_retrieve, "if submitted_retrieve"
retrieve_submit(user, la, sd, KEY, passkey_retrieve) ==
    LET state == user_attempts_state(la, user)
        items == ItemsOf(sd, user)
        i     == first_match(items, hash_passkey(passkey_retrieve))
    IN  IF passkey_retrieve = ""
        THEN Outcome(la, Screen({MsgEnterPasskey}, None), FALSE)
        ELSE IF i # 0
        THEN on_match(user, la, state, decrypt_data(items[i][2].encrypted_text, KEY))
        ELSE on_no_match(user, la, state)

\* Mutant of render_retrieve: the lock check is missing, the form is always there.
render_retrieve_unguarded(user, la, sd, KEY, submitted_retrieve, passkey_retrieve) ==
    IF has_no_data(sd, user) \/ ~submitted_retrieve
    THEN [login_attempts |-> la, screen |-> render_page("Retrieve", user, la, sd)]
    ELSE LET r == retrieve_submit(user, la, sd, KEY, passkey_retrieve)
         IN  [login_attempts |-> r.login_attempts, screen |-> r.screen]

\* render_retrieve as a whole for a logged-in user: the form, and with it the
\* handler, exists only behind the data check and the lock check.
render_retrieve(user, la, sd, KEY, submitted_retrieve, passkey_retrieve) ==
    IF has_no_data(sd, user) \/ user_attempts_state(la, user).locked \/ ~submitted_retrieve
    THEN [login_attempts |-> la, screen |-> render_page("Retrieve", user, la, sd)]
    ELSE LET r == retrieve_submit(user, la, sd, KEY, passkey_retrieve)
         IN  [login_attempts |-> r.login_attempts,
              screen |-> IF r.rerun
                         THEN render_page("Retrieve", user, r.login_attempts, sd)
                         ELSE r.screen]

----------------------------------------------------------------------------
\* The state machine: one action per widget event, each a whole script run

\* The sessions whose runs of render_store are followed statement by statement.
Sessions == {1, 2}

\* A script run that has not started.
IdleRun == [pc |-> "idle", user |-> None, stored_data |-> EmptyDict,
            data_id |-> None, item |-> None, saved |-> FALSE]

Init ==
    /\ key_file = 1
    /\ keys_generated = 1
    /\ data_file = File(FALSE, EmptyDict)
    /\ stored_data = EmptyDict
    /\ logged_in_user = None
    /\ login_attempts = [u \in {} |-> NewAttemptState]
    /\ current_page = "Login"
    /\ event = "start"
    /\ shown = Screen({}, None)
    /\ wrong_guesses = 0
    /\ runs = [s \in Sessions |-> IdleRun]

\* The top of the script: KEY = load_key()
LoadKey ==
    /\ key_file' = load_key(key_file, keys_generated).key_file
    /\ keys_generated' = load_key(key_file, keys_generated).keys_generated

KEY == load_key(key_file, keys_generated).KEY

\* The page a script run dispatches to.
OnPage(page) ==
    IF page = "Login"
    THEN current_page = "Login" \/ logged_in_user = None
    ELSE current_page = page /\ logged_in_user # None

\* The key file is deleted or replaced outside the program.
KeyFileRemoved ==
    /\ key_file # NoKeyFile
    /\ keys_generated < MaxKeys
    /\ key_file' = NoKeyFile
    /\ UNCHANGED <<keys_generated, data_file, stored_data, logged_in_user,
                   login_attempts, current_page, event, shown>>

\* render_login: the Login / Register form is submitted.
LoginSubmit(username_login) ==
    /\ OnPage("Login")
    /\ event' = "login"
    /\ LoadKey
    /\ LET r   == login_submit(username_login, logged_in_user, login_attempts)
           nav == navigate_to("Home", r.logged_in_user, r.login_attempts)
       IN  IF r.navigate
           THEN /\ logged_in_user' = r.logged_in_user
                /\ login_attempts' = nav.login_attempts
                /\ current_page' = nav.current_page
                /\ shown' = render_page(nav.current_page, r.logged_in_user,
                                        nav.login_attempts, load_data(data_file))
           ELSE /\ shown' = Screen({MsgEnterUsername}, None)
                /\ UNCHANGED <<logged_in_user, login_attempts, current_page>>
    /\ stored_data' = load_data(data_file)
    /\ UNCHANGED data_file

\* A button that only navigates: navigate_to(page_name) and the rerun.
Navigate(page_name, name) ==
    /\ event' = name
    /\ LoadKey
    /\ LET nav == navigate_to(page_name, logged_in_user, login_attempts)
       IN  /\ login_attempts' = nav.login_attempts
           /\ current_page' = nav.current_page
           /\ shown' = render_page(nav.current_page, logged_in_user,
                                   nav.login_attempts, load_data(data_file))
    /\ stored_data' = load_data(data_file)
    /\ UNCHANGED <<data_file, logged_in_user>>

\* render_home: "Store New Data"
HomeStore ==
    /\ OnPage("Home")
    /\ Navigate("Store", "home_store")

\* render_home: "Retrieve Data", a button a locked user is not given
HomeRetrieve ==
    /\ OnPage("Home")
    /\ ~is_locked(login_attempts, logged_in_user)
    /\ Navigate("Retrieve", "home_retrieve")

\* render_home: "Logout"
Logout ==
    /\ OnPage("Home")
    /\ event' = "logout"
    /\ LoadKey
    /\ LET r   == logout(logged_in_user, login_attempts)
           nav == navigate_to("Login", r.logged_in_user, r.login_attempts)
       IN  /\ logged_in_user' = r.logged_in_user
           /\ login_attempts' = nav.login_attempts
           /\ current_page' = nav.current_page
           /\ shown' = render_page(nav.current_page, r.logged_in_user,
                                   nav.login_attempts, load_data(data_file))
    /\ stored_data' = load_data(data_file)
    /\ UNCHANGED data_file

\* render_store: the Store Data form is submitted.
StoreSubmit(data_to_store, passkey_store, write_ok) ==
    /\ OnPage("Store")
    /\ event' = "store"
    /\ LoadKey
    /\ LET sd == load_data(data_file)
       IN  IF data_to_store # "" /\ passkey_store # ""
           THEN /\ TotalItems(sd) < MaxItems
                /\ stored_data' = store_submit(logged_in_user, sd, KEY,
                                               data_to_store, passkey_store)
                /\ data_file' = save_data(stored_data', data_file, write_ok)
                /\ shown' = Screen((IF write_ok THEN {} ELSE {MsgSaveFailed})
                                       \cup {MsgStored}, None)
           ELSE /\ stored_data' = sd
                /\ data_file' = data_file
                /\ shown' = Screen({MsgProvideBoth}, None)
    /\ UNCHANGED <<logged_in_user, login_attempts, current_page>>

\* render_store: "Back To Home"
StoreBack ==
    /\ OnPage("Store")
    /\ Navigate("Home", "store_back")

\* render_retrieve: the Retrieve Data form, which exists only for a user with
\* data who is not locked, is submitted.
RetrieveSubmit(passkey_retrieve) ==
    /\ OnPage("Retrieve")
    /\ ~has_no_data(load_data(data_file), logged_in_user)
    /\ ~user_attempts_state(login_attempts, logged_in_user).locked
    /\ event' = "retrieve"
    /\ LoadKey
    /\ LET r == render_retrieve(logged_in_user, login_attempts, load_data(data_file),
                                KEY, TRUE, passkey_retrieve)
       IN  /\ login_attempts' = r.login_attempts
           /\ shown' = r.screen
    /\ stored_data' = load_data(data_file)
    /\ UNCHANGED <<data_file, logged_in_user, current_page>>

\* render_retrieve: "Back To Home"
RetrieveBack ==
    /\ OnPage("Retrieve")
    /\ Navigate("Home", "retrieve_back")

\* One session whose runs are atomic: the history count and the stepwise runs rest.
OneSession == UNCHANGED <<wrong_guesses, runs>>

Next ==
    \/ KeyFileRemoved /\ OneSession
    \/ \E username_login \in Usernames : LoginSubmit(username_login) /\ OneSession
    \/ HomeStore /\ OneSession
    \/ HomeRetrieve /\ OneSession
    \/ Logout /\ OneSession
    \/ \E data_to_store \in Texts, passkey_store \in Passkeys, write_ok \in BOOLEAN :
          StoreSubmit(data_to_store, passkey_store, write_ok) /\ OneSession
    \/ StoreBack /\ OneSession
    \/ \E passkey_retrieve \in Passkeys : RetrieveSubmit(passkey_retrieve) /\ OneSession
    \/ RetrieveBack /\ OneSession

Spec == Init /\ [][Next]_vars

----------------------------------------------------------------------------
\* Properties

\* The vault a script run starting now would load.
CurrentData == load_data(data_file)

RealUsers == Usernames \ {""}

\* The passkeys whose hash equals the stored hash of none of the user's items.
NonMatching(u) ==
    {p \in Passkeys \ {""} :
        \A i \in 1..Len(ItemsOf(CurrentData, u)) :
            ItemsOf(CurrentData, u)[i][2].passkey_hash # hash_passkey(p)}

\* login_attempts after the Retrieve form is submitted with passkey p.
AfterSubmit(la, u, p) == render_retrieve(u, la, CurrentData, KEY, TRUE, p).login_attempts

Refusal == Screen({MsgMaxRetrieval}, None)

\* C1: a logged-in user with stored items whose attempt state is
\* {attempts: 0, locked: False} is locked after three consecutive submissions of
\* the Retrieve form with non-empty passkeys that match none of the user's items,
\* and both lock checks (render_retrieve's and render_home's) then refuse the
\* user; a user whose count stands at MAX_ATTEMPTS is locked.
C1_ThreeFailuresLock ==
    \A u \in RealUsers :
        /\ ( /\ logged_in_user = u
             /\ current_page = "Retrieve"
             /\ ~has_no_data(CurrentData, u)
             /\ u \in DOMAIN login_attempts
             /\ login_attempts[u] = NewAttemptState )
           => \A p1, p2, p3 \in NonMatching(u) :
                 LET la1 == AfterSubmit(login_attempts, u, p1)
                     la2 == AfterSubmit(la1, u, p2)
                     la3 == AfterSubmit(la2, u, p3)
                 IN  /\ ~la1[u].locked /\ ~la2[u].locked
                     /\ la3[u].locked
                     /\ user_attempts_state(la3, u).locked
                     /\ is_locked(la3, u)
                     /\ render_page("Retrieve", u, la3, CurrentData) = Refusal
        /\ (u \in DOMAIN login_attempts /\ login_attempts[u].attempts >= MAX_ATTEMPTS)
           => /\ login_attempts[u].locked
              /\ logged_in_user = u
              /\ current_page = "Retrieve" => shown = Refusal

\* C1 witness: three failed submissions have happened and the rerun shows the lockout.
C1_Witness ==
    /\ logged_in_user \in RealUsers
    /\ current_page = "Retrieve"
    /\ event = "retrieve"
    /\ logged_in_user \in DOMAIN login_attempts
    /\ login_attempts[logged_in_user] = [attempts |-> MAX_ATTEMPTS, locked |-> TRUE]
    /\ shown = Refusal

\* C2: while the logged-in user is locked, the Retrieve page refuses whatever
\* passkey is submitted: the answer is the lockout message alone, no decrypted
\* text is on screen, login_attempts is left as it was, the Retrieve form cannot
\* be submitted and the Home page shows the lock instead of the Retrieve button.
C2_LockedIsRefused ==
    \A u \in RealUsers :
        (logged_in_user = u /\ user_attempts_state(login_attempts, u).locked)
        => /\ \A submitted \in BOOLEAN, p \in Passkeys :
                 render_retrieve(u, login_attempts, CurrentData, KEY, submitted, p)
                     = [login_attempts |-> login_attempts, screen |-> Refusal]
           /\ shown.text = None
           /\ current_page = "Retrieve" => shown = Refusal
           /\ current_page = "Home" => shown = Screen({MsgAccountLocked}, None)
           /\ ~ENABLED (\E p \in Passkeys : RetrieveSubmit(p))
           /\ ~ENABLED HomeRetrieve

\* C2 witness: a locked user back on the Home page, shown the lock.
C2_Witness ==
    /\ logged_in_user \in RealUsers
    /\ is_locked(login_attempts, logged_in_user)
    /\ current_page = "Home"
    /\ shown = Screen({MsgAccountLocked}, None)

\* C3 as claimed: a locked user's lock is cleared by nothing but that user's login.
C3_OnlyLoginUnlocks ==
    [][\A u \in RealUsers :
          (is_locked(login_attempts, u) /\ ~is_locked(login_attempts, u)')
          => LoginSubmit(u)]_vars

\* C3 as amended: a locked user stays locked across navigation, store and the
\* rendering of the Retrieve page; the lock is cleared only by that user's logout
\* (which resets the entry to {attempts: 0, locked: False}) or login.
C3_OnlyLogoutOrLoginUnlocks ==
    [][\A u \in RealUsers :
          (is_locked(login_attempts, u) /\ ~is_locked(login_attempts, u)')
          => \/ LoginSubmit(u)
             \/ (logged_in_user = u /\ Logout /\ login_attempts'[u] = NewAttemptState)]_vars

\* C3 witness: a user locked on the Retrieve page has gone Home, on to the Store
\* page and stored an item, and is still locked.
C3_Witness ==
    /\ logged_in_user \in RealUsers
    /\ is_locked(login_attempts, logged_in_user)
    /\ current_page = "Store"
    /\ event = "store"
    /\ MsgStored \in shown.msgs

AttemptStates == [attempts : 0..MAX_ATTEMPTS, locked : BOOLEAN]

\* The session state a login with username n leaves when n's entry was s before.
LoginOver(n, s) ==
    LET la == DictSet(login_attempts, n, s)
        r  == login_submit(n, logged_in_user, la)
    IN  navigate_to("Home", r.logged_in_user, r.login_attempts).login_attempts

\* C4: a login with a non-empty username makes it the logged-in user with the
\* entry {attempts: 0, locked: False}, whatever the entry was (absent, any count,
\* locked), leaves the other users' entries alone and shows the Home page; a login
\* with an empty username changes neither the logged-in user nor login_attempts.
C4_LoginResets ==
    [][/\ \A n \in RealUsers :
             /\ LoginSubmit(n)
                => /\ logged_in_user' = n
                   /\ n \in DOMAIN login_attempts'
                   /\ login_attempts'[n] = NewAttemptState
                   /\ DOMAIN login_attempts' = DOMAIN login_attempts \cup {n}
                   /\ \A u \in DOMAIN login_attempts \ {n} :
                         login_attempts'[u] = login_attempts[u]
                   /\ current_page' = "Home"
             /\ OnPage("Login")
                => \A s \in AttemptStates : LoginOver(n, s)[n] = NewAttemptState
       /\ LoginSubmit("")
          => /\ UNCHANGED <<logged_in_user, login_attempts, current_page>>
             /\ shown' = Screen({MsgEnterUsername}, None)]_vars

\* C4 witness: a second user has logged in during the session, after the first.
C4_Witness ==
    /\ event = "login"
    /\ current_page = "Home"
    /\ logged_in_user \in RealUsers
    /\ DOMAIN login_attempts = RealUsers
    /\ login_attempts[logged_in_user] = NewAttemptState

\* The positions of the user's items whose stored hash is the hash of p, and the
\* item at the least of them: the one the loop of render_retrieve stops at.
HitSet(u, p) ==
    {i \in 1..Len(ItemsOf(CurrentData, u)) :
        ItemsOf(CurrentData, u)[i][2].passkey_hash = hash_passkey(p)}

Least(S) == CHOOSE x \in S : \A y \in S : x <= y

TriedItem(u, p) == ItemsOf(CurrentData, u)[Least(HitSet(u, p))][2]

Decrypts(u, p) == decrypt_data(TriedItem(u, p).encrypted_text, KEY) # None

OthersKept(u) ==
    /\ DOMAIN login_attempts' = DOMAIN login_attempts
    /\ \A v \in DOMAIN login_attempts \ {u} : login_attempts'[v] = login_attempts[v]

\* C5: a submission of the Retrieve form is made by an unlocked user with a count
\* n in 0..2.  When the passkey's hash matches and the matched item decrypts, the
\* user's entry becomes {attempts: 0, locked: False}; when it matches no item and
\* n + 1 < MAX_ATTEMPTS, the entry becomes {attempts: n + 1, locked: False}.
C5_RetrievalTransitions ==
    [][\A p \in Passkeys \ {""} :
          RetrieveSubmit(p)
          => LET u == logged_in_user
                 n == login_attempts[u].attempts
             IN  /\ n \in 0..(MAX_ATTEMPTS - 1)
                 /\ ~login_attempts[u].locked
                 /\ (HitSet(u, p) # {} /\ Decrypts(u, p))
                    => login_attempts'[u] = [attempts |-> 0, locked |-> FALSE]
                 /\ (HitSet(u, p) = {} /\ n + 1 < MAX_ATTEMPTS)
                    => /\ login_attempts'[u] = [attempts |-> n + 1, locked |-> FALSE]
                       /\ shown' = Screen({MsgIncorrect}, None)
                 /\ OthersKept(u)]_vars

\* C5 witness: a second failure in a row has been counted and the user is not locked.
C5_Witness ==
    /\ logged_in_user \in RealUsers
    /\ event = "retrieve"
    /\ shown = Screen({MsgIncorrect}, None)
    /\ login_attempts[logged_in_user] = [attempts |-> 2, locked |-> FALSE]

\* C6: a submission whose passkey hash matches an item that fails to decrypt
\* reports the decryption failure, does not raise the user's count and does not
\* lock the user, whatever the count was.
C6_DecryptFailureNotCounted ==
    [][\A p \in Passkeys \ {""} :
          (RetrieveSubmit(p) /\ HitSet(logged_in_user, p) # {} /\ ~Decrypts(logged_in_user, p))
          => LET u == logged_in_user
             IN  /\ login_attempts'[u].attempts <= login_attempts[u].attempts
                 /\ ~login_attempts'[u].locked
                 /\ shown' = Screen({MsgDecryptFailed}, None)]_vars

\* C6 witness: a decryption failure reported to a user who has two failures counted.
C6_Witness ==
    /\ logged_in_user \in RealUsers
    /\ event = "retrieve"
    /\ shown = Screen({MsgDecryptFailed}, None)
    /\ login_attempts[logged_in_user] = [attempts |-> 2, locked |-> FALSE]

LockFlags(la) == [u \in DOMAIN la |-> la[u].locked]

Pages == {"Login", "Home", "Store", "Retrieve"}

\* C7: leaving the Retrieve page by "Back To Home" leaves the logged-in user's
\* count at 0, and navigation changes no user's locked flag: neither a step of a
\* navigation button nor navigate_to itself, to any page and for any user, on any
\* value login_attempts comes to have.
C7_NavigationResetsCountOnly ==
    [][/\ RetrieveBack
          => /\ login_attempts'[logged_in_user].attempts = 0
             /\ OthersKept(logged_in_user)
       /\ (HomeStore \/ HomeRetrieve \/ StoreBack \/ RetrieveBack)
          => LockFlags(login_attempts') = LockFlags(login_attempts)
       /\ login_attempts' # login_attempts
          => \A page \in Pages, u \in RealUsers \cup {None} :
                LockFlags(navigate_to(page, u, login_attempts').login_attempts)
                    = LockFlags(login_attempts')]_vars

\* C7 witness: a locked user has left the Retrieve page: the count is 0, the lock stays.
C7_Witness ==
    /\ logged_in_user \in RealUsers
    /\ event = "retrieve_back"
    /\ current_page = "Home"
    /\ login_attempts[logged_in_user] = [attempts |-> 0, locked |-> TRUE]

\* C8 as claimed: for every username, locked is true exactly when the count is
\* at the threshold.
C8_LockedIffThreshold ==
    \A u \in DOMAIN login_attempts :
        login_attempts[u].locked <=> login_attempts[u].attempts = MAX_ATTEMPTS

\* C8 as amended: every count is in 0..MAX_ATTEMPTS and a count at the threshold
\* means locked, so an unlocked user's count is below it; navigate_to resets the
\* count of a locked user too, so a locked user has the count MAX_ATTEMPTS while
\* on the Retrieve page and 0 once away from it.
C8_ThresholdImpliesLocked ==
    \A u \in DOMAIN login_attempts :
        /\ login_attempts[u].attempts \in 0..MAX_ATTEMPTS
        /\ login_attempts[u].attempts = MAX_ATTEMPTS => login_attempts[u].locked
        /\ login_attempts[u].locked
           => /\ logged_in_user = u
              /\ login_attempts[u].attempts \in {0, MAX_ATTEMPTS}
              /\ login_attempts[u].attempts = MAX_ATTEMPTS <=> current_page = "Retrieve"

\* C8 witness: a locked user whose count navigation has reset, on the Store page.
C8_Witness ==
    /\ logged_in_user \in RealUsers
    /\ current_page = "Store"
    /\ login_attempts[logged_in_user] = [attempts |-> 0, locked |-> TRUE]

\* C9: a submission by an unlocked user shows the text held by the first item, in
\* insertion order, whose stored hash is the hash of the passkey, when that item
\* decrypts, and shows no text otherwise: never the text of another item.
C9_FirstMatchShown ==
    [][\A p \in Passkeys \ {""} :
          RetrieveSubmit(p)
          => LET u == logged_in_user
             IN  IF HitSet(u, p) # {} /\ Decrypts(u, p)
                 THEN shown' = Screen({MsgDecrypted}, TriedItem(u, p).encrypted_text.text)
                 ELSE shown'.text = None]_vars

\* C9 witness: of two items with different passkeys and different texts, the
\* second one's text is on screen.
C9_Witness ==
    /\ logged_in_user \in DOMAIN CurrentData
    /\ event = "retrieve"
    /\ LET items == CurrentData[logged_in_user]
       IN  /\ Len(items) = 2
           /\ items[1][2].passkey_hash # items[2][2].passkey_hash
           /\ items[1][2].encrypted_text.text # items[2][2].encrypted_text.text
           /\ shown = Screen({MsgDecrypted}, items[2][2].encrypted_text.text)

\* The ids of every user's items are data_1 .. data_k, in insertion order.
IdsSequential(sd) ==
    \A u \in DOMAIN sd : \A i \in 1..Len(sd[u]) : sd[u][i][1] = <<"data_", i>>

IdsUnique(sd) ==
    \A u \in DOMAIN sd : \A i, j \in 1..Len(sd[u]) : sd[u][i][1] = sd[u][j][1] => i = j

\* Every item of vault a is in vault b, under the same user at the same place.
Extends(b, a) ==
    \A u \in DOMAIN a :
        /\ u \in DOMAIN b
        /\ Len(b[u]) >= Len(a[u])
        /\ \A i \in 1..Len(a[u]) : b[u][i] = a[u][i]

\* C10: from the empty vault on, every user's items carry the ids data_1 .. data_k
\* in the file and in memory, unique within the user; a store of a text under a
\* passkey appends exactly one item with the id (number of the user's items) + 1
\* and the given content to that user's items, and no step alters or removes an
\* item the data file holds.
C10_SequentialIds ==
    [][/\ (data_file' # data_file \/ stored_data' # stored_data)
          => /\ IdsSequential(CurrentData') /\ IdsSequential(stored_data')
             /\ IdsUnique(CurrentData') /\ IdsUnique(stored_data')
             /\ Extends(CurrentData', CurrentData)
       /\ \A t \in Texts \ {""}, p \in Passkeys \ {""}, ok \in BOOLEAN :
             StoreSubmit(t, p, ok)
             => LET u   == logged_in_user
                    old == ItemsOf(CurrentData, u)
                IN  /\ DOMAIN stored_data' = DOMAIN CurrentData \cup {u}
                    /\ stored_data'[u]
                          = Append(old, << <<"data_", Len(old) + 1>>,
                                           [encrypted_text |-> encrypt_data(t, KEY),
                                            passkey_hash |-> hash_passkey(p)] >>)
                    /\ \A v \in DOMAIN CurrentData \ {u} : stored_data'[v] = CurrentData[v]
                    /\ data_file' = IF ok THEN File(TRUE, stored_data') ELSE data_file]_vars

\* C10 witness: a user's second item has been stored and saved as data_2 after data_1.
C10_Witness ==
    /\ event = "store"
    /\ MsgStored \in shown.msgs
    /\ logged_in_user \in DOMAIN CurrentData
    /\ Len(CurrentData[logged_in_user]) = 2
    /\ CurrentData[logged_in_user][1][1] = <<"data_", 1>>
    /\ CurrentData[logged_in_user][2][1] = <<"data_", 2>>

\* A session that has just logged u in.
FreshSession(u) == [v \in {u} |-> NewAttemptState]

C12_KeyLoadedOnce ==
    [][LET r == load_key(key_file, keys_generated)
       IN  /\ load_key(r.key_file, r.keys_generated) = r
           /\ r.key_file = r.KEY /\ r.key_file # NoKeyFile
           /\ IF key_file = NoKeyFile
              THEN r.KEY = generate_key(keys_generated)
                   /\ r.keys_generated = keys_generated + 1
              ELSE r.KEY = key_file /\ r.keys_generated = keys_generated
           /\ \/ KeyFileRemoved
              \/ /\ key_file' = r.key_file
                 /\ keys_generated' = r.keys_generated
                 /\ KEY' = r.KEY
                 /\ \A u \in DOMAIN stored_data' :
                       Len(stored_data'[u]) > Len(ItemsOf(stored_data, u))
                       => stored_data'[u][Len(stored_data'[u])][2].encrypted_text.key
                             = r.KEY]_vars

\* C12 witness: a key was generated and written once after the key file went
\* missing; a later run has stored an item under it and a run after that has
\* decrypted the item with the key read back from the file.
C12_Witness ==
    /\ keys_generated = 2 /\ key_file = 2
    /\ event = "retrieve"
    /\ MsgDecrypted \in shown.msgs
    /\ \E i \in 1..Len(ItemsOf(CurrentData, logged_in_user)) :
          /\ CurrentData[logged_in_user][i][2].encrypted_text.key = 2
          /\ CurrentData[logged_in_user][i][2].encrypted_text.text = shown.text

\* Every key a key file can hold within the bounds, and one more.
Keys == 1..(MaxKeys + 1)

\* C13: decrypt_data returns the token's text under the token's key and None
\* under every other key, never another text; a submission of the Retrieve form
\* ends in one of three outcomes that no screen confuses: no item matches the
\* passkey, the matching item fails to decrypt (no text shown), or it decrypts
\* (its text, which is not None, shown); an empty decrypted text is a success.
C13_DecryptFailureIsNone ==
    [][\A p \in Passkeys \ {""} :
          RetrieveSubmit(p)
          => LET u     == logged_in_user
                 state == user_attempts_state(login_attempts, u)
             IN  /\ \A i \in 1..Len(CurrentData[u]), K \in Keys :
                       LET token == CurrentData[u][i][2].encrypted_text
                       IN  decrypt_data(token, K)
                              = IF K = token.key THEN token.text ELSE None
                 /\ on_match(u, login_attempts, state, "").screen = Screen({MsgDecrypted}, "")
                 /\ on_match(u, login_attempts, state, None).screen
                       = Screen({MsgDecryptFailed}, None)
                 /\ IF HitSet(u, p) = {}
                    THEN /\ shown'.msgs \cap {MsgDecrypted, MsgDecryptFailed} = {}
                         /\ shown'.text = None
                    ELSE IF TriedItem(u, p).encrypted_text.key = KEY
                    THEN /\ shown' = Screen({MsgDecrypted}, TriedItem(u, p).encrypted_text.text)
                         /\ shown'.text # None
                    ELSE shown' = Screen({MsgDecryptFailed}, None)]_vars

\* C13 witness: a user holds one item made under the first key and one made under
\* the second; the passkey of the former has just met a decryption failure, with
\* nothing counted against the user.
C13_Witness ==
    /\ logged_in_user \in RealUsers
    /\ event = "retrieve"
    /\ key_file = 2
    /\ Len(ItemsOf(CurrentData, logged_in_user)) = 2
    /\ CurrentData[logged_in_user][1][2].encrypted_text.key = 1
    /\ CurrentData[logged_in_user][2][2].encrypted_text.key = 2
    /\ shown = Screen({MsgDecryptFailed}, None)
    /\ login_attempts[logged_in_user] = NewAttemptState

\* C14 as claimed: a store whose write of the data file fails ends in an error
\* outcome and does not report that the data was stored; the new item is held in
\* memory only and the data file keeps its prior content.
C14_WriteFailureIsError ==
    [][\A t \in Texts \ {""}, p \in Passkeys \ {""} :
          StoreSubmit(t, p, FALSE)
          => /\ MsgSaveFailed \in shown'.msgs
             /\ MsgStored \notin shown'.msgs
             /\ data_file' = data_file
             /\ Len(stored_data'[logged_in_user])
                   = Len(ItemsOf(CurrentData, logged_in_user)) + 1
             /\ load_data(data_file') # stored_data']_vars

\* The state a store with a failed write ends in: both the failure and the
\* success message on screen, the item in memory and not in the file.
C14_FailedWriteReportedStored ==
    /\ event = "store"
    /\ shown = Screen({MsgSaveFailed, MsgStored}, None)
    /\ stored_data # CurrentData

\* C15 as claimed: a submission whose passkey hash matches an item that fails
\* to decrypt leaves the user's entry equal to the entry a successful retrieval
\* leaves, {attempts: 0, locked: False}.
C15_DecryptFailureResets ==
    [][\A p \in Passkeys \ {""} :
          (RetrieveSubmit(p) /\ HitSet(logged_in_user, p) # {} /\ ~Decrypts(logged_in_user, p))
          => LET u == logged_in_user
             IN  /\ login_attempts'[u]
                       = on_match(u, login_attempts, login_attempts[u], "").login_attempts[u]
                 /\ login_attempts'[u] = NewAttemptState]_vars

\* C15: a submission whose passkey hash matches an item that fails to decrypt
\* leaves login_attempts as it was: the user's count n stays n, which is the
\* entry a successful retrieval leaves only when n = 0.
C15_DecryptFailureKeepsCount ==
    [][\A p \in Passkeys \ {""} :
          (RetrieveSubmit(p) /\ HitSet(logged_in_user, p) # {} /\ ~Decrypts(logged_in_user, p))
          => LET u == logged_in_user
                 success == on_match(u, login_attempts, login_attempts[u], "").login_attempts
             IN  /\ login_attempts' = login_attempts
                 /\ success[u] = NewAttemptState
                 /\ (login_attempts'[u] = success[u]) <=> (login_attempts[u].attempts = 0)]_vars

\* C15 witness: a decryption failure reported to a user with one failure counted,
\* whose count is still 1.
C15_Witness ==
    /\ logged_in_user \in RealUsers
    /\ event = "retrieve"
    /\ shown = Screen({MsgDecryptFailed}, None)
    /\ login_attempts[logged_in_user] = [attempts |-> 1, locked |-> FALSE]

\* C18: the vault every run loads from the data file, and the file, change only
\* in a Store submission by a logged-in user with a non-empty text and a
\* non-empty passkey; such a submission adds exactly one item at the end of that
\* user's collection and leaves every other collection as loaded; a submission
\* with an empty field changes nothing; no Store submission changes login_attempts.
C18_VaultFrame ==
    [][/\ \A t \in Texts, p \in Passkeys, ok \in BOOLEAN :
             StoreSubmit(t, p, ok)
             => /\ login_attempts' = login_attempts
                /\ IF t # "" /\ p # ""
                   THEN LET u == logged_in_user
                            before == ItemsOf(CurrentData, u)
                        IN  /\ u \in RealUsers
                            /\ DOMAIN stored_data' = DOMAIN CurrentData \cup {u}
                            /\ Len(stored_data'[u]) = Len(before) + 1
                            /\ \A i \in 1..Len(before) : stored_data'[u][i] = before[i]
                            /\ \A v \in DOMAIN CurrentData \ {u} :
                                  stored_data'[v] = CurrentData[v]
                            /\ CurrentData' = IF ok THEN stored_data' ELSE CurrentData
                   ELSE stored_data' = CurrentData /\ data_file' = data_file
       /\ (data_file' # data_file \/ (stored_data' # stored_data /\ stored_data' # CurrentData))
          => \E t \in Texts \ {""}, p \in Passkeys \ {""}, ok \in BOOLEAN :
                StoreSubmit(t, p, ok)]_vars

\* C18 witness: the second user has stored a first item, written to the file,
\* while the other user's collection, of one item, stayed as it was.
C18_Witness ==
    /\ event = "store"
    /\ shown = Screen({MsgStored}, None)
    /\ logged_in_user = "bob"
    /\ DOMAIN CurrentData = {"alice", "bob"}
    /\ Len(CurrentData["alice"]) = 1
    /\ Len(CurrentData["bob"]) = 1
    /\ stored_data = CurrentData
    /\ login_attempts["bob"] = NewAttemptState

\* C19: every username other than the logged-in user has no entry in
\* login_attempts or the entry {attempts: 0, locked: False}; a logout leaves the
\* departing user's entry at that value and nobody logged in.
C19_OnlyLoggedInUserCounted ==
    [][/\ \A u \in DOMAIN login_attempts' \ {logged_in_user'} :
             login_attempts'[u] = NewAttemptState
       /\ Logout => /\ logged_in_user' = None
                    /\ logged_in_user \in DOMAIN login_attempts'
                    /\ login_attempts'[logged_in_user] = NewAttemptState]_vars

\* C19 witness: a user who was locked has logged out; both users have entries.
C19_Witness ==
    /\ event = "logout"
    /\ logged_in_user = None
    /\ DOMAIN login_attempts = RealUsers
    /\ \A u \in RealUsers : login_attempts[u] = NewAttemptState
    /\ DOMAIN CurrentData = RealUsers

\* C20: a logged-in user has an entry in login_attempts, so the state the
\* Retrieve handler works on is that entry; the failure that takes the count to
\* MAX_ATTEMPTS leaves {attempts: MAX_ATTEMPTS, locked: True} in login_attempts
\* although the run ends in st.rerun() before the write-back.
C20_EntryExists ==
    [][/\ logged_in_user' # None => logged_in_user' \in DOMAIN login_attempts'
       /\ \A p \in Passkeys \ {""} :
             (RetrieveSubmit(p) /\ HitSet(logged_in_user, p) = {})
             => LET u == logged_in_user
                    r == retrieve_submit(u, login_attempts, CurrentData, KEY, p)
                IN  /\ u \in DOMAIN login_attempts
                    /\ user_attempts_state(login_attempts, u) = login_attempts[u]
                    /\ login_attempts[u].attempts = MAX_ATTEMPTS - 1
                       => /\ r.rerun
                          /\ login_attempts'[u]
                                = [attempts |-> MAX_ATTEMPTS, locked |-> TRUE]]_vars

\* C20 witness: the second user to log in has just been locked by a third failure.
C20_Witness ==
    /\ event = "retrieve"
    /\ logged_in_user = "bob"
    /\ DOMAIN login_attempts = RealUsers
    /\ login_attempts["bob"] = [attempts |-> MAX_ATTEMPTS, locked |-> TRUE]
    /\ login_attempts["alice"] = NewAttemptState

----------------------------------------------------------------------------
\* The session with the wrong guesses since the last login counted

\* A non-empty passkey whose hash is the stored hash of none of the user's items.
WrongGuess(p) == p # "" /\ HitSet(logged_in_user, p) = {}

Min(a, b) == IF a <= b THEN a ELSE b

\* The key file is removed at most once while the guesses are counted: one loss
\* of the key is what a decryption failure takes.
GuessesKeyFileRemoved ==
    /\ keys_generated = 1
    /\ KeyFileRemoved
    /\ OneSession

\* A login starts the count anew.
GuessesLogin(username_login) ==
    /\ LoginSubmit(username_login)
    /\ wrong_guesses' = IF username_login # "" THEN 0 ELSE wrong_guesses
    /\ UNCHANGED runs

\* A submission of the Retrieve form with a non-matching passkey is counted.
GuessesRetrieve(passkey_retrieve) ==
    /\ RetrieveSubmit(passkey_retrieve)
    /\ wrong_guesses' = IF WrongGuess(passkey_retrieve)
                        THEN Min(wrong_guesses + 1, MaxGuesses)
                        ELSE wrong_guesses
    /\ UNCHANGED runs

NextGuesses ==
    \/ GuessesKeyFileRemoved
    \/ \E username_login \in Usernames : GuessesLogin(username_login)
    \/ HomeStore /\ OneSession
    \/ HomeRetrieve /\ OneSession
    \/ Logout /\ OneSession
    \/ \E data_to_store \in Texts, passkey_store \in Passkeys, write_ok \in BOOLEAN :
          StoreSubmit(data_to_store, passkey_store, write_ok) /\ OneSession
    \/ StoreBack /\ OneSession
    \/ \E passkey_retrieve \in Passkeys : GuessesRetrieve(passkey_retrieve)
    \/ RetrieveBack /\ OneSession

SpecGuesses == Init /\ [][NextGuesses]_vars

\* C16 as claimed: between two logins a user submits at most MAX_ATTEMPTS
\* non-matching passkeys, whatever navigation lies between the submissions.
C16_AtMostThreeWrongGuesses == wrong_guesses <= MAX_ATTEMPTS

\* C16: the count that locks is the count of non-matching submissions since the
\* last login, successful retrieval or navigation, not since the last login
\* alone: a non-matching submission is made only by an unlocked user with a count
\* below MAX_ATTEMPTS, raises the count by one and locks at MAX_ATTEMPTS; the
\* count never exceeds the wrong guesses since the login, and it falls only to 0,
\* by a login, a logout, a successful retrieval or a navigation button.
C16_ConsecutiveGuessesLimited ==
    [][/\ \A u \in DOMAIN login_attempts' :
             /\ login_attempts'[u].attempts <= MAX_ATTEMPTS
             /\ u = logged_in_user'
                => /\ login_attempts'[u].attempts <= wrong_guesses'
                   /\ login_attempts'[u].locked => wrong_guesses' >= MAX_ATTEMPTS
       /\ \A p \in Passkeys :
             (GuessesRetrieve(p) /\ WrongGuess(p))
             => LET u == logged_in_user
                IN  /\ ~login_attempts[u].locked
                    /\ login_attempts[u].attempts < MAX_ATTEMPTS
                    /\ login_attempts'[u].attempts = login_attempts[u].attempts + 1
                    /\ login_attempts'[u].locked
                          <=> login_attempts'[u].attempts = MAX_ATTEMPTS
       /\ \A u \in DOMAIN login_attempts :
             login_attempts'[u].attempts < login_attempts[u].attempts
             => /\ login_attempts'[u].attempts = 0
                /\ event' \in {"login", "logout", "home_store", "home_retrieve",
                               "store_back", "retrieve_back"}
                   \/ (event' = "retrieve" /\ MsgDecrypted \in shown'.msgs)]_vars

\* C16 witness: a fourth non-matching passkey has been submitted since the login
\* and the user, with a count of 2, is not locked.
C16_Witness ==
    /\ logged_in_user \in RealUsers
    /\ event = "retrieve"
    /\ shown = Screen({MsgIncorrect}, None)
    /\ wrong_guesses = MAX_ATTEMPTS + 1
    /\ login_attempts[logged_in_user] = [attempts |-> 2, locked |-> FALSE]

----------------------------------------------------------------------------
\* Two sessions storing at once: render_store, statement by statement

Run(s) == runs[s]

\* stored_data = load_data(), at the start of the run that the Store form's
\* submission by user triggers.
RaceLoad(s, user) ==
    /\ Run(s).pc = "idle"
    /\ runs' = [runs EXCEPT ![s] = [IdleRun EXCEPT !.pc = "loaded", !.user = user,
                                        !.stored_data = load_data(data_file)]]
    /\ UNCHANGED <<key_file, keys_generated, data_file, stored_data, logged_in_user,
                   login_attempts, current_page, event, shown, wrong_guesses>>

\* render_store, "if data_to_store and passkey_store": the item is encrypted,
\* given its id and put into the run's stored_data.
RaceAppend(s, data_to_store, passkey_store) ==
    /\ Run(s).pc = "loaded"
    /\ data_to_store # "" /\ passkey_store # ""
    /\ TotalItems(Run(s).stored_data) < MaxItems
    /\ LET sd    == store_submit(Run(s).user, Run(s).stored_data, KEY,
                                 data_to_store, passkey_store)
           items == sd[Run(s).user]
       IN  runs' = [runs EXCEPT ![s] = [@ EXCEPT !.pc = "appended",
                                            !.stored_data = sd,
                                            !.data_id = items[Len(items)][1],
                                            !.item = items[Len(items)][2]]]
    /\ UNCHANGED <<key_file, keys_generated, data_file, stored_data, logged_in_user,
                   login_attempts, current_page, event, shown, wrong_guesses>>

\* save_data(stored_data), then st.success: the run's whole dict replaces the file.
RaceSave(s, write_ok) ==
    /\ Run(s).pc = "appended"
    /\ data_file' = save_data(Run(s).stored_data, data_file, write_ok)
    /\ runs' = [runs EXCEPT ![s] = [@ EXCEPT !.pc = "reported", !.saved = write_ok]]
    /\ UNCHANGED <<key_file, keys_generated, stored_data, logged_in_user,
                   login_attempts, current_page, event, shown, wrong_guesses>>

NextRace ==
    \/ \E s \in Sessions, user \in Usernames \ {""} : RaceLoad(s, user)
    \/ \E s \in Sessions, data_to_store \in Texts, passkey_store \in Passkeys :
          RaceAppend(s, data_to_store, passkey_store)
    \/ \E s \in Sessions, write_ok \in BOOLEAN : RaceSave(s, write_ok)

SpecRace == Init /\ [][NextRace]_vars

\* The file holds, for the run's user and under the run's id, the run's item.
InFile(r) ==
    \E i \in 1..Len(ItemsOf(CurrentData, r.user)) :
        CurrentData[r.user][i] = <<r.data_id, r.item>>

\* The run wrote the file and reported its item stored.
Stored(r) == r.pc = "reported" /\ r.saved

\* Run t read the file before run r's item was in it, and wrote the file.
SavedOver(r, t) ==
    /\ Stored(t)
    /\ \A i \in 1..Len(ItemsOf(t.stored_data, r.user)) :
          t.stored_data[r.user][i] # <<r.data_id, r.item>>

\* C17: a save replaces the whole file by the saving run's dict, which holds
\* what the run loaded and its one item; so an item reported stored is missing
\* from the file only when another session, having loaded the file before the
\* item was in it, saved after it; and two sessions that loaded the same
\* collection of a user give their items the same id.
C17_LostUpdateOnlyByRace ==
    [][/\ \A s \in Sessions :
             RaceSave(s, TRUE)
             => /\ CurrentData' = Run(s).stored_data
                /\ InFile(Run(s))'
       /\ \A s \in Sessions :
             (Stored(Run(s))' /\ ~InFile(Run(s))')
             => \E t \in Sessions \ {s} : SavedOver(Run(s), Run(t))'
       /\ \A s, t \in Sessions :
             (/\ runs'[s].pc \in {"appended", "reported"}
              /\ runs'[t].pc \in {"appended", "reported"}
              /\ runs'[s].user = runs'[t].user
              /\ Len(runs'[s].stored_data[runs'[s].user])
                    = Len(runs'[t].stored_data[runs'[t].user]))
             => runs'[s].data_id = runs'[t].data_id]_vars

\* C17 witness: two sessions, interleaved, have each written the file and
\* reported an item stored for the same user under the same id; the items
\* differ and the file holds only the one saved last.
C17_Witness ==
    \E s \in Sessions : \E t \in Sessions \ {s} :
        /\ Stored(Run(s)) /\ Stored(Run(t))
        /\ Run(s).user = Run(t).user
        /\ Run(s).data_id = Run(t).data_id
        /\ Run(s).item # Run(t).item
        /\ ~InFile(Run(s))
        /\ InFile(Run(t))
        /\ Len(CurrentData[Run(t).user]) = 1

====
